---- MODULE Spec2Model ----
(***************************************************************************)
(* SmartGrocer: the agent task runner (droid_runner.py) and the extraction *)
(* pipeline (app_navigator.py, price_checker.py), modelled as state        *)
(* machines.                                                               *)
(*                                                                         *)
(* Spec        : concurrent calls of DroidRunRunner.run through the two    *)
(*               runner instances of the process.                          *)
(* LockSpec    : concurrent calls of run on one runner.                    *)
(* TimedSpec   : one call of run, with a discrete clock (a tick = 0.2 s).  *)
(* ExtractSpec : a price check on a captured text.                         *)
(* MetricSpec  : the per-kg price of a price and a weight.                 *)
(* PriceFieldSpec : a price check on a marker with one price field.        *)
(* PlatformsSpec : the platforms checked one after the other, and the      *)
(*               summary of their prices.                                  *)
(* BotSpec     : SmartGroceryBot.run for one request.                      *)
(***************************************************************************)
EXTENDS Integers, Sequences, FiniteSets, TLC

\* ------------------------------------------------------------------ bounds
MaxCalls == 3        \* calls of run issued on one runner in one behaviour
MaxCross == 2        \* calls of run issued across the two runners
MaxWrites == 1       \* writes one agent makes to sys.stdout
TimeoutTicks == 2    \* timeout_s of a call, in ticks
MaxOverrun == 2      \* ticks the clock is followed past the timeout bound
MaxSegments == 2     \* markers and pieces of free text in a captured text

\* -------------------------------------------------------- program constants
\* config.rate_limit_delay, in seconds.
Delay == 4
GraceTicks == 1      \* asyncio.sleep(0.2)
BoundedTicks == 5    \* asyncio.wait_for(asyncio.shield(task), timeout=1.0)

Calls == 1..MaxCalls
\* AppNavigator and WhatsAppHandler each construct their own DroidRunRunner.
Runners == {"navigator", "whatsapp"}
\* sys.stdout is the process's original stream (Orig) or the StringIO of a call.
Orig == 0
Sinks == Calls \cup {Orig}
\* What a buffer holds: the number of writes of each agent and of the runner's
\* own print calls (source Orig).
EmptyBuf == [s \in Sinks |-> 0]
\* Exception types an agent can raise.  asyncio.TimeoutError is an Exception;
\* asyncio.CancelledError is a BaseException.
ExcTypes == {"RuntimeError", "TimeoutError", "CancelledError"}
\* agent.run() returns a coroutine (legacy) or a WorkflowHandler (a Future).
HandleKinds == {"coroutine", "workflow"}
TimeoutBound == TimeoutTicks + GraceTicks + BoundedTicks
MaxElapsed == TimeoutBound + MaxOverrun
\* What the caller of the most recent call to leave run observed.
NoExit ==
    [call |-> Orig, how |-> "none", captured |-> FALSE, text |-> EmptyBuf,
     err |-> "none", deadline |-> FALSE, agent |-> "none", written |-> 0,
     sinkBefore |-> Orig, sinkAfter |-> Orig]

\* =========================================================================
\* The extraction pipeline (app_navigator.py, price_checker.py): functions
\* =========================================================================
\* Text is a sequence of tokens: a token is one character, or a whole word
\* made of letters only (price, name, weight, true, ...).
Quote == "\""
Digits == {"0", "1", "2", "3", "4", "5", "6", "7", "8", "9"}
Whitespace == {" ", "\n"}
\* The tokens used here that are neither a letter, a digit nor whitespace.
Punctuation ==
    {Quote, "'", ":", ",", ".", "-", "_", "=", "/", "<", ">", "{", "}", "[", "]",
     "₹", "$", "€", "£"}

IsDigit(t) == t \in Digits
IsSpace(t) == t \in Whitespace
\* [a-zA-Z0-9\s]
IsAlnumSpace(t) == t \notin Punctuation /\ t # ""
\* ["\s:]
IsSeparator(t) == t = Quote \/ IsSpace(t) \/ t = ":"

\* str.lower(), on the tokens that have upper-case letters here.
Lower(t) ==
    CASE t = "Price" -> "price"
      [] t = "True" -> "true"
      [] t = "R" -> "r"
      [] t = "O" -> "o"
      [] OTHER -> t

Range(s) == {s[i] : i \in 1..Len(s)}
Count(cs, t) == Len(SelectSeq(cs, LAMBDA c : c = t))
\* The least member of a set of positions, 0 when there is none.
FirstOf(S) == IF S = {} THEN 0 ELSE CHOOSE i \in S : \A j \in S : i <= j
\* The token at position k, lower-cased ("" past the end).
At(toks, k) == IF k \in 1..Len(toks) THEN Lower(toks[k]) ELSE ""
\* The character classes of the patterns: \d, \s, [0-9.], ["\s:], [a-zA-Z0-9\s].
InClass(class, t) ==
    CASE class = "digit" -> IsDigit(t)
      [] class = "space" -> IsSpace(t)
      [] class = "number" -> IsDigit(t) \/ t = "."
      [] class = "separator" -> IsSeparator(t)
      [] class = "alnum" -> IsAlnumSpace(t)
\* Where the longest run of tokens of a class starting at i ends (i - 1 when
\* toks[i] is not of the class): a greedy "+" or "*" of a regex.
RunEnd(toks, i, class) ==
    CHOOSE j \in (i - 1)..Len(toks) :
        /\ \A k \in i..j : InClass(class, toks[k])
        /\ j = Len(toks) \/ ~InClass(class, toks[j + 1])

RECURSIVE Flatten(_)
Flatten(ss) == IF ss = <<>> THEN <<>> ELSE Head(ss) \o Flatten(Tail(ss))

\* ----------------------------------------------------------- JSON values
\* A value of a parsed payload: a string or a number (v: its characters, for a
\* number those of str(number)), null, or no such key.
Absent == [t |-> "absent", v |-> <<>>]
Null == [t |-> "null", v |-> <<>>]
Str(cs) == [t |-> "str", v |-> cs]
Num(cs) == [t |-> "num", v |-> cs]

\* dict.get(key) is None for a missing key and for null.
IsNone(x) == x.t \in {"absent", "null"}
\* The truth value of dict.get(key): None, "" and 0 are false.
Truthy(x) ==
    CASE x.t = "str" -> x.v # <<>>
      [] x.t = "num" -> x.v # <<"0">>
      [] OTHER -> FALSE

\* float(s) of a string of digits and dots succeeds when it has a digit and at
\* most one dot.
FloatParses(cs) ==
    /\ \E i \in 1..Len(cs) : IsDigit(cs[i])
    /\ Count(cs, ".") <= 1

\* [₹Rs,\s$€£]
CurrencyChars == {"₹", "R", "s", ",", "$", "€", "£"} \cup Whitespace

\* AppNavigator._clean_price_value: None for a false value; str(price) without
\* the currency characters, then without anything but digits and dots; None
\* when float() rejects what is left.
CleanPriceValue(price) ==
    IF ~Truthy(price) THEN Null
    ELSE LET stripped == SelectSeq(price.v, LAMBDA c : c \notin CurrencyChars)
             cleaned == SelectSeq(stripped, LAMBDA c : IsDigit(c) \/ c = ".")
         IN  IF FloatParses(cleaned) THEN Str(cleaned) ELSE Null

\* PriceChecker._clean_price: the same statements.
CleanPrice(price_str) ==
    IF ~Truthy(price_str) THEN Null
    ELSE LET stripped == SelectSeq(price_str.v, LAMBDA c : c \notin CurrencyChars)
             cleaned == SelectSeq(stripped, LAMBDA c : IsDigit(c) \/ c = ".")
         IN  IF FloatParses(cleaned) THEN Str(cleaned) ELSE Null

\* ------------------------------------------------------------- the records
\* price_per_kg: no such key, None, or a float (n: its value in hundredths).
NoPerKg == [t |-> "absent", n |-> 0]
NonePerKg == [t |-> "none", n |-> 0]
RaisesPerKg == [t |-> "raised", n |-> 0]
PerKg(n) == [t |-> "float", n |-> n]

\* The keys of a payload object that the pipeline reads.
EmptyObject ==
    [price |-> Absent, original_price |-> Absent, weight |-> Absent,
     name |-> Absent, note |-> Absent]

\* A record (dict) of the pipeline.  marker and via are not keys of the dict:
\* they tell which completion marker the record was built from (its success
\* attribute, "none" for no marker) and by which path (json: the parsed
\* payload; marker_text: _parse_text_fallback on the payload; raw_text:
\* _parse_text_fallback on the whole text).
BlankRecord ==
    [status |-> "none", platform |-> FALSE, note |-> Absent, price |-> Absent,
     original_price |-> Absent, weight |-> Absent, name |-> Absent,
     price_per_kg |-> NoPerKg, marker |-> "none", via |-> "none"]

\* {"status": "error", "note": note, "platform": platform}
ErrorRecord(note) ==
    [BlankRecord EXCEPT !.status = "error", !.platform = TRUE, !.note = Str(<<note>>)]

\* No record: the loop goes on to the next marker.
Continue == [BlankRecord EXCEPT !.status = "continue"]
\* No record: an exception of type e leaves the function.
Raises(e) == [BlankRecord EXCEPT !.status = "raised", !.note = Str(<<e>>)]

\* --------------------------------------------------------- captured text
\* The captured text is a sequence of segments: completion markers
\*   <request_accomplished success="S">PAYLOAD</request_accomplished>
\* and free text.  A payload is the text of a JSON object (k = "object"), of a
\* list that is empty, holds one object or holds a number ("list0", "list1",
\* "listscalar"), of a number ("scalar"), or is not JSON ("raw").
Payload(k, obj, raw) == [k |-> k, obj |-> obj, raw |-> raw]
Marker(success, payload) == [tag |-> "marker", success |-> success, payload |-> payload]
FreeText(toks) == [tag |-> "text", success |-> "", payload |-> Payload("raw", EmptyObject, toks)]

RenderValue(x) ==
    CASE x.t = "str" -> <<Quote>> \o x.v \o <<Quote>>
      [] x.t = "num" -> x.v
      [] OTHER -> <<"null">>

RenderKey(key) ==
    IF key = "original_price" THEN <<Quote, "original", "_", "price", Quote>>
    ELSE <<Quote, key, Quote>>

RECURSIVE RenderFields(_, _)
RenderFields(obj, keys) ==
    IF keys = <<>> THEN <<>>
    ELSE LET key == Head(keys)
             rest == RenderFields(obj, Tail(keys))
         IN  IF obj[key].t = "absent" THEN rest
             ELSE RenderKey(key) \o <<":", " ">> \o RenderValue(obj[key])
                    \o (IF rest = <<>> THEN <<>> ELSE <<",", " ">> \o rest)

RenderObject(obj) ==
    <<"{">> \o RenderFields(obj, <<"price", "original_price", "weight", "name", "note">>)
            \o <<"}">>

RenderPayload(p) ==
    CASE p.k = "object" -> RenderObject(p.obj)
      [] p.k = "list0" -> <<"[", "]">>
      [] p.k = "list1" -> <<"[">> \o RenderObject(p.obj) \o <<"]">>
      [] p.k = "listscalar" -> <<"[">> \o p.raw \o <<"]">>
      [] OTHER -> p.raw

RenderSegment(s) ==
    IF s.tag = "marker"
    THEN <<"<", "request", "_", "accomplished", " ", "success", "=", Quote,
           s.success, Quote, ">">>
           \o RenderPayload(s.payload)
           \o <<"<", "/", "request", "_", "accomplished", ">", "\n">>
    ELSE s.payload.raw \o <<"\n">>

\* output_text, as tokens.
Render(text) == Flatten([i \in 1..Len(text) |-> RenderSegment(text[i])])

\* re.findall(pattern, output_text) finds, in the order emitted, the markers
\* with a non-empty success attribute and a non-empty payload that has no "<".
IsMatch(s) ==
    /\ s.tag = "marker"
    /\ s.success # ""
    /\ RenderPayload(s.payload) # <<>>
    /\ "<" \notin Range(RenderPayload(s.payload))

Matches(text) == SelectSeq(text, IsMatch)

\* json.loads(content.strip().replace("'", '"')) raises JSONDecodeError for
\* text that is not JSON, and for JSON with an apostrophe in a string.
JsonDecodeError(p) == p.k = "raw" \/ "'" \in Range(RenderPayload(p))

\* ------------------------------------------------- _parse_text_fallback
\* group(1) of (?:price["\s:]+)?[₹Rs.\s]*(\d+(?:\.\d{1,2})?): the first run of
\* digits of the text, with a dot and one or two digits if they follow.
FallbackPrice(toks) ==
    LET i == FirstOf({k \in 1..Len(toks) : IsDigit(toks[k])})
        j == RunEnd(toks, i, "digit")
        frac == IF At(toks, j + 1) = "." /\ IsDigit(At(toks, j + 2))
                THEN (IF IsDigit(At(toks, j + 3)) THEN 3 ELSE 2)
                ELSE 0
    IN  IF i = 0 THEN <<>> ELSE SubSeq(toks, i, j + frac)

\* str.strip()
Strip(cs) ==
    LET inner == {k \in 1..Len(cs) : ~IsSpace(cs[k])}
    IN  IF inner = {} THEN <<>>
        ELSE SubSeq(cs, FirstOf(inner), CHOOSE k \in inner : \A l \in inner : l <= k)

\* group(1) of name["\s:]+([a-zA-Z0-9\s]+), stripped.  The separators are
\* taken greedily; when no letter or digit follows them, they give back their
\* trailing whitespace to the group, which strips to "".
FallbackName(toks) ==
    LET Start(k) == RunEnd(toks, k + 1, "separator") + 1
        Direct(k) == Start(k) > k + 1 /\ IsAlnumSpace(At(toks, Start(k)))
        GivenBack(k) == Start(k) > k + 2 /\ IsSpace(At(toks, Start(k) - 1))
        i == FirstOf({k \in 1..Len(toks) :
                        At(toks, k) = "name" /\ (Direct(k) \/ GivenBack(k))})
    IN  IF i = 0 THEN Absent
        ELSE IF Direct(i)
        THEN Str(Strip(SubSeq(toks, Start(i), RunEnd(toks, Start(i), "alnum"))))
        ELSE Str(<<>>)

\* How many tokens at position k spell a unit of (?:kg|g|l|ml|gm), tried in
\* that order; 0 for none.
UnitLen(toks, k) ==
    CASE At(toks, k) = "k" /\ At(toks, k + 1) = "g" -> 2
      [] At(toks, k) = "g" -> 1
      [] At(toks, k) = "l" -> 1
      [] At(toks, k) = "m" /\ At(toks, k + 1) = "l" -> 2
      [] OTHER -> 0

\* group(1) of weight["\s:]+([0-9.]+\s*(?:kg|g|l|ml|gm)).
FallbackWeight(toks) ==
    LET Start(k) == RunEnd(toks, k + 1, "separator") + 1
        NumEnd(k) == RunEnd(toks, Start(k), "number")
        UnitAt(k) == RunEnd(toks, NumEnd(k) + 1, "space") + 1
        i == FirstOf({k \in 1..Len(toks) :
                        /\ At(toks, k) = "weight"
                        /\ Start(k) > k + 1
                        /\ NumEnd(k) >= Start(k)
                        /\ UnitLen(toks, UnitAt(k)) > 0})
    IN  IF i = 0 THEN Absent
        ELSE Str(SubSeq(toks, Start(i), UnitAt(i) + UnitLen(toks, UnitAt(i)) - 1))

\* AppNavigator._parse_text_fallback
ParseTextFallback(toks) ==
    LET raw_price == FallbackPrice(toks)
        price == IF raw_price = <<>> THEN Absent ELSE CleanPriceValue(Str(raw_price))
    IN  IF Truthy(price)
        THEN [BlankRecord EXCEPT !.status = "found", !.platform = TRUE,
                                 !.price = price, !.name = FallbackName(toks),
                                 !.weight = FallbackWeight(toks)]
        ELSE [BlankRecord EXCEPT !.status = "error", !.platform = TRUE]

\* ------------------------------------------- _extract_data_from_output
\* Lines 192-207: the parsed payload becomes the record.
RecordOfData(success, data) ==
    LET price == IF Truthy(data.price)
                 THEN CleanPriceValue(data.price) ELSE data.price
        original == IF Truthy(data.original_price)
                    THEN CleanPriceValue(data.original_price) ELSE data.original_price
        rec == [BlankRecord EXCEPT !.platform = TRUE, !.price = price,
                                   !.original_price = original,
                                   !.weight = data.weight, !.name = data.name,
                                   !.note = data.note, !.marker = success,
                                   !.via = "json"]
    IN  IF Lower(success) = "true" /\ Truthy(price)
        THEN [rec EXCEPT !.status = "found"]
        ELSE IF Lower(success) = "false"
        THEN [rec EXCEPT !.status = "not_found"]
        ELSE Continue

\* One pass of the loop over the matches (lines 183-213).  data.get on a
\* payload that is not an object raises AttributeError, which nothing catches.
TryMarker(m) ==
    IF JsonDecodeError(m.payload)
    THEN LET result == ParseTextFallback(RenderPayload(m.payload))
         IN  IF Truthy(result.price)
             THEN [result EXCEPT !.marker = m.success, !.via = "marker_text"]
             ELSE Continue
    ELSE IF m.payload.k \in {"scalar", "listscalar"}
    THEN Raises("AttributeError")
    ELSE RecordOfData(m.success,
                      IF m.payload.k = "list0" THEN EmptyObject ELSE m.payload.obj)

\* for success, content in reversed(matches)
RECURSIVE LastUsable(_, _)
LastUsable(matches, i) ==
    IF i = 0 THEN Continue
    ELSE LET r == TryMarker(matches[i])
         IN  IF r.status = "continue" THEN LastUsable(matches, i - 1) ELSE r

\* Lines 215-225 without the test of line 216.
RawTextFallbackAnyText(toks) ==
    LET result == ParseTextFallback(toks)
    IN  IF Truthy(result.price)
        THEN [result EXCEPT !.via = "raw_text"]
        ELSE ErrorRecord("Could not parse output")
\* Lines 215-225: the fallback over the whole text.
RawTextFallback(toks) ==
    LET result == ParseTextFallback(toks)
    IN  IF (\E k \in 1..Len(toks) : Lower(toks[k]) = "price") /\ Truthy(result.price)
        THEN [result EXCEPT !.via = "raw_text"]
        ELSE ErrorRecord("Could not parse output")

\* AppNavigator._extract_data_from_output
ExtractDataFromOutput(text) ==
    IF Render(text) = <<>> THEN ErrorRecord("No output")
    ELSE LET matches == Matches(text)
             r == LastUsable(matches, Len(matches))
         IN  IF r.status = "continue" THEN RawTextFallback(Render(text)) ELSE r

\* ---------------------------------------------- _calculate_price_per_kg
DigitValue(d) ==
    CASE d = "0" -> 0 [] d = "1" -> 1 [] d = "2" -> 2 [] d = "3" -> 3
      [] d = "4" -> 4 [] d = "5" -> 5 [] d = "6" -> 6 [] d = "7" -> 7
      [] d = "8" -> 8 [] d = "9" -> 9

RECURSIVE NatOf(_)
NatOf(cs) ==
    IF cs = <<>> THEN 0
    ELSE 10 * NatOf(SubSeq(cs, 1, Len(cs) - 1)) + DigitValue(cs[Len(cs)])

\* float(cs) in units of 10^-places, for digits with at most one dot and at
\* most that many decimals.
Scaled(cs, places) ==
    LET dot == FirstOf({k \in 1..Len(cs) : cs[k] = "."})
        whole == IF dot = 0 THEN cs ELSE SubSeq(cs, 1, dot - 1)
        frac == IF dot = 0 THEN <<>> ELSE SubSeq(cs, dot + 1, Len(cs))
        padded == [k \in 1..places |-> IF k <= Len(frac) THEN frac[k] ELSE "0"]
    IN  NatOf(whole \o padded)

\* round(a / b, 0), ties to the even neighbour.
RoundDiv(a, b) ==
    LET q == a \div b
        r == a % b
    IN  IF 2 * r < b \/ (2 * r = b /\ q % 2 = 0) THEN q ELSE q + 1

\* _calculate_price_per_kg without the division by 1000.0 of line 100.
CalculatePricePerKgUnscaled(price, weight) ==
    LET toks == weight.v
        NumEnd(k) ==
            LET j == RunEnd(toks, k, "digit")
            IN  IF At(toks, j + 1) = "." /\ IsDigit(At(toks, j + 2))
                THEN RunEnd(toks, j + 2, "digit") ELSE j
        UnitAt(k) == RunEnd(toks, NumEnd(k) + 1, "space") + 1
        i == FirstOf({k \in 1..Len(toks) :
                        IsDigit(toks[k]) /\ UnitLen(toks, UnitAt(k)) > 0})
        weight_num == Scaled(SubSeq(toks, i, NumEnd(i)), 3)
        price_val == Scaled(price.v, 2)
    IN  IF ~FloatParses(price.v) THEN NonePerKg
        ELSE IF weight.t # "str" THEN RaisesPerKg
        ELSE IF i = 0 \/ weight_num = 0 THEN NonePerKg
        ELSE PerKg(RoundDiv(price_val * 1000, weight_num))

\* PriceChecker._calculate_price_per_kg.  The weight is searched for
\* (\d+(?:\.\d+)?)\s*(kg|g|l|ml|gm); weight.lower() of a weight that is not a
\* string raises AttributeError, which the function does not catch (RaisesPerKg).
\* The rounding is that of the exact quotient, not of its binary float.
CalculatePricePerKg(price, weight) ==
    LET toks == weight.v
        NumEnd(k) ==
            LET j == RunEnd(toks, k, "digit")
            IN  IF At(toks, j + 1) = "." /\ IsDigit(At(toks, j + 2))
                THEN RunEnd(toks, j + 2, "digit") ELSE j
        UnitAt(k) == RunEnd(toks, NumEnd(k) + 1, "space") + 1
        i == FirstOf({k \in 1..Len(toks) :
                        IsDigit(toks[k]) /\ UnitLen(toks, UnitAt(k)) > 0})
        weight_num == Scaled(SubSeq(toks, i, NumEnd(i)), 3)
        unit == At(toks, UnitAt(i))
        price_val == Scaled(price.v, 2)
    IN  IF ~FloatParses(price.v) THEN NonePerKg
        ELSE IF weight.t # "str" THEN RaisesPerKg
        ELSE IF i = 0 \/ weight_num = 0 THEN NonePerKg
        ELSE IF unit \in {"k", "l"}
        THEN PerKg(RoundDiv(price_val * 1000, weight_num))
        ELSE IF weight_num % 1000 = 0
        THEN PerKg(RoundDiv(price_val * 1000, weight_num \div 1000))
        ELSE PerKg(RoundDiv(price_val * 1000 * 1000, weight_num))

\* ---------------------------------------------- get_price_via_single_agent
\* What self.runner.run did: it returned (output_text, err), err being "none",
\* "TimeoutError" or "RuntimeError", or it raised.
RunReturned(err) == [how |-> "returned", err |-> err]
RunRaised(e) == [how |-> "raised", err |-> e]

\* AppNavigator.get_price_via_single_agent, from line 120 on.
GetPriceViaSingleAgent(text, outcome) ==
    IF outcome.how = "raised" THEN Raises(outcome.err)
    ELSE IF outcome.err = "TimeoutError" THEN ErrorRecord("App Timeout")
    ELSE IF outcome.err # "none" THEN ErrorRecord(outcome.err)
    ELSE IF Render(text) = <<>> THEN ErrorRecord("No output")
    ELSE ExtractDataFromOutput(text)

\* ------------------------------------------------- check_single_platform
\* PriceChecker.check_single_platform, from line 23 on, price_data being what
\* get_price_via_single_agent returned or raised: "except Exception" turns
\* whatever the navigator or the per-kg computation raises into an error record.
CheckSinglePlatform(price_data) ==
    LET price == IF Truthy(price_data.price)
                 THEN CleanPrice(price_data.price) ELSE price_data.price
        original == IF Truthy(price_data.original_price)
                    THEN CleanPrice(price_data.original_price)
                    ELSE price_data.original_price
        price_per_kg == IF Truthy(price) /\ Truthy(price_data.weight)
                        THEN CalculatePricePerKg(price, price_data.weight)
                        ELSE price_data.price_per_kg
    IN  IF price_data.status = "raised" THEN ErrorRecord(price_data.note.v[1])
        ELSE IF price_per_kg = RaisesPerKg THEN ErrorRecord("AttributeError")
        ELSE [price_data EXCEPT !.price = price, !.original_price = original,
                                !.price_per_kg = price_per_kg]

\* ------------------------------------------------------ the price summary
\* The truth value of p.get('price_per_kg'): None and 0.0 are false.
TruthyPerKg(x) == x.t = "float" /\ x.n # 0

\* 999999.0, in hundredths.
NoPrice == 99999900

\* PriceChecker._extract_numeric_price, in hundredths (prices have at most two
\* decimals here).
ExtractNumericPrice(item) ==
    LET cleaned == IF IsNone(item.price) THEN Null ELSE CleanPrice(item.price)
    IN  IF Truthy(cleaned) THEN Scaled(cleaned.v, 2) ELSE NoPrice

\* any(p.get('price_per_kg') for p in price_data)
HasPerKg(price_data) ==
    \E k \in 1..Len(price_data) : TruthyPerKg(price_data[k].price_per_kg)

\* The sort keys of format_price_summary, lines 239-245.
SortKey(x, per_kg) ==
    IF per_kg
    THEN (IF TruthyPerKg(x.price_per_kg) THEN x.price_per_kg.n ELSE NoPrice)
    ELSE ExtractNumericPrice(x)

\* sorted(): an entry goes after the entries whose keys are not greater.
InsertSorted(done, x, per_kg) ==
    LET k == Cardinality({j \in 1..Len(done) :
                            SortKey(done[j], per_kg) <= SortKey(x, per_kg)})
    IN  SubSeq(done, 1, k) \o <<x>> \o SubSeq(done, k + 1, Len(done))

RECURSIVE Sorted(_, _)
Sorted(data, per_kg) ==
    IF data = <<>> THEN <<>>
    ELSE InsertSorted(Sorted(SubSeq(data, 1, Len(data) - 1), per_kg),
                      data[Len(data)], per_kg)

\* sorted_data of format_price_summary.
SortedData(price_data) == Sorted(price_data, HasPerKg(price_data))

\* format_price_summary lists the entries of sorted_data and the savings; it
\* has no section for the targets whose record is not among them.
ListedSeparately(price_data) == <<>>

SeqMin(ns) == CHOOSE x \in Range(ns) : \A y \in Range(ns) : x <= y
SeqMax(ns) == CHOOSE x \in Range(ns) : \A y \in Range(ns) : y <= x

NoSavings == [basis |-> "unset", amount |-> 0, percentage |-> 0, min |-> 0, max |-> 0]

\* The result of calculate_savings on a list of numbers: the amount in
\* hundredths (round(savings, 2)), the percentage in tenths
\* (round(percentage, 1)).
SavingsOver(ns, basis) ==
    [basis |-> basis,
     amount |-> SeqMax(ns) - SeqMin(ns),
     percentage |-> IF SeqMax(ns) > 0
                    THEN RoundDiv((SeqMax(ns) - SeqMin(ns)) * 1000, SeqMax(ns))
                    ELSE 0,
     min |-> SeqMin(ns),
     max |-> SeqMax(ns)]

ZeroSavings == [basis |-> "none", amount |-> 0, percentage |-> 0, min |-> 0, max |-> 0]

\* PriceChecker.calculate_savings.
CalculateSavings(price_data) ==
    LET with_per_kg == SelectSeq(price_data, LAMBDA p : TruthyPerKg(p.price_per_kg))
        per_kg_prices == [k \in 1..Len(with_per_kg) |-> with_per_kg[k].price_per_kg.n]
        with_price == SelectSeq(price_data, LAMBDA p : Truthy(p.price))
        valid_prices == [k \in 1..Len(with_price) |-> ExtractNumericPrice(with_price[k])]
    IN  IF Len(price_data) < 2 THEN ZeroSavings
        ELSE IF Len(per_kg_prices) >= 2 THEN SavingsOver(per_kg_prices, "per_kg")
        ELSE IF valid_prices = <<>> THEN ZeroSavings
        ELSE SavingsOver(valid_prices, "absolute")

\* PriceChecker.find_best_deal: min() returns the first record with the least
\* key, the key being the per-kg price or, without one, the price.
FindBestDeal(price_data) ==
    LET valid_prices == SelectSeq(price_data, LAMBDA p : Truthy(p.price))
        Key(x) == IF TruthyPerKg(x.price_per_kg) THEN x.price_per_kg.n
                  ELSE ExtractNumericPrice(x)
        best == FirstOf({k \in 1..Len(valid_prices) :
                           \A j \in 1..Len(valid_prices) :
                               Key(valid_prices[k]) <= Key(valid_prices[j])})
    IN  IF valid_prices = <<>> THEN BlankRecord ELSE valid_prices[best]

\* ---------------------------------------------------- the platforms checked
\* AIAnalyzer.determine_platforms.
Platforms == <<"Blinkit", "Zepto">>

\* "if delay > 0 and platform != platforms[-1]", without the second test.
CooldownDueAlways(k) == Delay > 0
\* check_multiple_platforms, line 137, for the platform at position k.
CooldownDue(k) == Delay > 0 /\ Platforms[k] # Platforms[Len(Platforms)]

\* What the agent may report for a product on one platform.
ShopObjects ==
    {[EmptyObject EXCEPT !.price = Str(<<"4", "9">>),
                         !.weight = Str(<<"3", "0", "0", "g">>)],
     [EmptyObject EXCEPT !.price = Str(<<"1", "4", "4">>),
                         !.weight = Str(<<"5", "0", "0", "g">>)],
     [EmptyObject EXCEPT !.price = Str(<<"2", "9">>),
                         !.weight = Str(<<"1", "k", "g">>)],
     [EmptyObject EXCEPT !.price = Str(<<"₹", "3", "1">>)]}

SoldOut ==
    [EmptyObject EXCEPT !.price = Str(<<"2", "5">>),
                        !.note = Str(<<"Out", " ", "of", " ", "stock">>)]

NotAvailable ==
    [EmptyObject EXCEPT !.note = Str(<<"Product", " ", "not", " ", "available">>)]

\* The texts run may return for the task of get_price_via_single_agent.
PlatformTexts ==
    {<<Marker("true", Payload("object", o, <<>>))>> : o \in ShopObjects}
    \cup {<<Marker("false", Payload("object", o, <<>>))>> : o \in {SoldOut, NotAvailable}}
    \cup {<<>>}

\* ------------------------------------------------------ the texts explored
PriceValues ==
    {Absent, Null, Str(<<>>), Num(<<"0">>), Num(<<"2", "9">>), Str(<<"₹", "3", "1">>),
     Str(<<"1", ".", "2", ".", "3">>), Str(<<"-", "5">>)}

Objects ==
    {[EmptyObject EXCEPT !.price = p] : p \in PriceValues}
    \cup {[EmptyObject EXCEPT !.note = Str(<<"Product", " ", "not", " ", "available">>)],
          [EmptyObject EXCEPT !.price = Str(<<"2", "9">>),
                              !.weight = Str(<<"1", "k", "g">>),
                              !.name = Str(<<"O", "n", "i", "o", "n">>)],
          [EmptyObject EXCEPT !.price = Str(<<"R", "s", ".", " ", "4", "9">>),
                              !.original_price = Str(<<"₹", "6", "0">>),
                              !.weight = Str(<<"3", "0", "0", "g">>)],
          [EmptyObject EXCEPT !.price = Null,
                              !.weight = Str(<<"5", "0", "0", "g">>)],
          [EmptyObject EXCEPT !.price = Str(<<"3", "1">>),
                              !.weight = Num(<<"5", "0", "0">>)],
          [EmptyObject EXCEPT !.price = Str(<<"3", "1">>),
                              !.name = Str(<<"a", "'", "s">>)],
          [EmptyObject EXCEPT !.price = Str(<<"₹", "1", ",", "2", "9", "9">>),
                              !.weight = Str(<<"5", "k", "g">>),
                              !.name = Str(<<"a", "'", "s">>)]}

Onion == [EmptyObject EXCEPT !.price = Str(<<"3", "1">>)]

Segments ==
    {Marker(s, Payload("object", o, <<>>)) : s \in {"true", "false"}, o \in Objects}
    \cup {Marker("True", Payload("object", Onion, <<>>)),
          Marker("maybe", Payload("object", Onion, <<>>)),
          Marker("true", Payload("list1", Onion, <<>>)),
          Marker("true", Payload("list0", EmptyObject, <<>>)),
          Marker("true", Payload("listscalar", EmptyObject, <<"1">>)),
          Marker("true", Payload("scalar", EmptyObject, <<"4", "2">>)),
          Marker("false", Payload("raw", EmptyObject,
                                  <<"not", " ", "available", ",", " ", "5", " ", "items">>)),
          Marker("true", Payload("raw", EmptyObject,
                                 <<"Price", ":", " ", "R", "s", ".", " ", "4", "5", ".", "5", "0">>)),
          FreeText(<<"Step", " ", "3", " ", "done">>),
          FreeText(<<"the", " ", "price", " ", "is", " ", "4", "5">>)}

TextsUpTo(n) == UNION {[1..k -> Segments] : k \in 0..n}

RunOutcomes ==
    {RunReturned("none"), RunReturned("TimeoutError"), RunReturned("RuntimeError"),
     RunRaised("RuntimeError")}

\* =========================================================================
\* State
\* =========================================================================
VARIABLES
    handleKind,  \* what agent.run() returns in this process
    nIssued,     \* calls of run issued so far, numbered in the order issued
    pc,          \* [Calls -> position of the call in run]
    runnerOf,    \* [Calls -> the runner instance the call was issued on]
    capture,     \* [Calls -> capture_stdout]
    locked,      \* [Runners -> asyncio.Lock._locked]
    waiters,     \* [Runners -> asyncio.Lock._waiters, in arrival order]
    sink,        \* sys.stdout
    oldStdout,   \* [Calls -> old_stdout]
    buf,         \* [Calls -> contents of the call's StringIO]
    emitted,     \* [Calls -> writes the call's agent has made]
    task,        \* [Calls -> state of the awaited handle]
    agentLive,   \* [Calls -> the agent is still executing]
    cancelReq,   \* [Calls -> cancellation was requested]
    timer,       \* [Calls -> ticks until the pending timeout or sleep expires]
    elapsed,     \* [Calls -> ticks since the call acquired the lock]
    deadlineHit, \* [Calls -> the timeout of wait_for(task, timeout_s) expired]
    caught,      \* [Calls -> exception run caught and will return]
    last,        \* the most recent exit from run, as its caller saw it
    outputText,  \* the text a price check got from run, as segments
    runOutcome,  \* how that call of run ended
    stage,       \* what was done with the text
    record,      \* the record made from it
    platformNo,  \* position of check_multiple_platforms in platforms
    attempted,   \* the platforms handed to check_single_platform so far
    results,     \* what check_single_platform returned for them
    allPrices,   \* all_prices
    hasPerKg,    \* has_per_kg of format_price_summary
    sortedData,  \* sorted_data, the entries of the summary in their order
    savings,     \* what calculate_savings returned for the summary
    cooldowns,   \* the sleeps of check_multiple_platforms between platforms
    bestDeal,    \* what find_best_deal returned
    sent,        \* the messages handed to send_message, in order
    lastTask     \* the most recent agent task issued for the request

extractVars == <<outputText, runOutcome, stage, record>>
runnerVars == <<handleKind, nIssued, pc, runnerOf, capture, locked, waiters, sink,
                oldStdout, buf, emitted, task, agentLive, cancelReq, timer, elapsed,
                deadlineHit, caught, last>>
loopVars == <<platformNo, attempted, results, allPrices, cooldowns>>
summaryVars == <<hasPerKg, sortedData, savings, bestDeal>>
botVars == <<sent, lastTask>>
reportVars == <<loopVars, summaryVars, botVars>>
vars == <<runnerVars, extractVars, reportVars>>

callVars == <<nIssued, runnerOf, capture>>
agentVars == <<task, agentLive, emitted>>

\* No call of run was issued.
NoCalls ==
    /\ nIssued = 0
    /\ pc = [c \in Calls |-> "idle"]
    /\ runnerOf = [c \in Calls |-> "navigator"]
    /\ capture = [c \in Calls |-> FALSE]
    /\ locked = [r \in Runners |-> FALSE]
    /\ waiters = [r \in Runners |-> <<>>]
    /\ sink = Orig
    /\ oldStdout = [c \in Calls |-> Orig]
    /\ buf = [c \in Calls |-> EmptyBuf]
    /\ emitted = [c \in Calls |-> 0]
    /\ task = [c \in Calls |-> "none"]
    /\ agentLive = [c \in Calls |-> FALSE]
    /\ cancelReq = [c \in Calls |-> FALSE]
    /\ timer = [c \in Calls |-> 0]
    /\ elapsed = [c \in Calls |-> 0]
    /\ deadlineHit = [c \in Calls |-> FALSE]
    /\ caught = [c \in Calls |-> "none"]
    /\ last = NoExit

\* No price check is under way.
NoCheck ==
    /\ outputText = <<>>
    /\ runOutcome = RunReturned("none")
    /\ stage = "idle"
    /\ record = BlankRecord

\* No platform was checked.
NoReport ==
    /\ platformNo = 1
    /\ attempted = <<>>
    /\ results = <<>>
    /\ allPrices = <<>>
    /\ hasPerKg = FALSE
    /\ sortedData = <<>>
    /\ savings = NoSavings
    /\ cooldowns = 0
    /\ bestDeal = BlankRecord
    /\ sent = <<>>
    /\ lastTask = "none"

Init ==
    /\ handleKind \in HandleKinds
    /\ NoCalls
    /\ NoCheck
    /\ NoReport

\* ------------------------------------------------------------ asyncio.Lock
\* Lock.release wakes the first waiter: the index in _waiters of the call that
\* takes the lock next.
WakeUpLast(q) == Len(q)
WakeUpFirst(q) == 1

RemoveAt(q, i) == [j \in 1..(Len(q) - 1) |-> IF j < i THEN q[j] ELSE q[j + 1]]

\* "async with self._lock" leaving its block, by return or by exception.
ReleaseNever(l, r) == l
Release(l, r) == [l EXCEPT ![r] = FALSE]

\* The calls that have left run.
Exited(c) == pc[c] \in {"done", "raised"}

\* A write to sys.stdout by source src: into the StringIO installed, if any (a
\* StringIO whose call has left run is read by nobody).
Write(src) ==
    buf' = IF sink = Orig \/ Exited(sink) THEN buf
           ELSE [buf EXCEPT ![sink][src] = @ + 1]

\* The statements a call holding the lock is suspended in.
HoldingPcs == {"waitfor", "cancelwait", "grace", "bounded", "errgrace"}
\* A call between launching its agent and returning.
Running(c) == pc[c] \in HoldingPcs

\* ------------------------------------------------------- DroidRunRunner.run
\* The locals of a call are gone once it has left run.
DropLocals(c) ==
    /\ oldStdout' = [oldStdout EXCEPT ![c] = Orig]
    /\ buf' = [buf EXCEPT ![c] = EmptyBuf]
    /\ timer' = [timer EXCEPT ![c] = 0]
    /\ elapsed' = [elapsed EXCEPT ![c] = 0]
    /\ deadlineHit' = [deadlineHit EXCEPT ![c] = FALSE]
    /\ caught' = [caught EXCEPT ![c] = "none"]
    /\ cancelReq' = [cancelReq EXCEPT ![c] = FALSE]
    /\ task' = [task EXCEPT ![c] = "none"]

\* Lines 38-57, run without suspension once the lock is taken: construct the
\* agent, swap sys.stdout, launch.  DroidAgent(...) or agent.run() may raise; both
\* are outside the try block, so only the lock's context manager cleans up.
Enter(c, r, cap, outcome) ==
    /\ sink' = IF outcome # "construct_raises" /\ cap THEN c ELSE sink
    /\ IF outcome = "ok"
       THEN /\ pc' = [pc EXCEPT ![c] = "waitfor"]
            /\ locked' = [locked EXCEPT ![r] = TRUE]
            /\ oldStdout' = [oldStdout EXCEPT ![c] = sink]
            /\ task' = [task EXCEPT ![c] = "pending"]
            /\ agentLive' = [agentLive EXCEPT ![c] = TRUE]
            /\ timer' = [timer EXCEPT ![c] = TimeoutTicks]
            /\ UNCHANGED <<buf, elapsed, deadlineHit, caught, cancelReq, last>>
       ELSE /\ pc' = [pc EXCEPT ![c] = "raised"]
            /\ locked' = Release([locked EXCEPT ![r] = TRUE], r)
            /\ last' = [NoExit EXCEPT !.call = c, !.how = "raised",
                                      !.captured = cap, !.sinkBefore = sink,
                                      !.sinkAfter = sink']
            /\ DropLocals(c)
            /\ agentLive' = agentLive
    /\ UNCHANGED <<extractVars, reportVars, handleKind, emitted>>

\* How the launch can go.  Calling a coroutine function runs none of its body,
\* so only a run() that builds a WorkflowHandler can raise at the call.
LaunchOutcomes ==
    {"ok", "construct_raises"}
        \cup (IF handleKind = "workflow" THEN {"run_raises"} ELSE {})

\* Lock.acquire takes the lock at once when it is free and nobody waits.
CanAcquire(r) == ~locked[r] /\ waiters[r] = <<>>

\* A caller starts run (calls are numbered in the order they are issued) and
\* reaches "async with self._lock": it goes on at once or queues.
Issue(c, r, cap) ==
    /\ pc[c] = "idle"
    /\ c = nIssued + 1
    /\ nIssued' = c
    /\ runnerOf' = [runnerOf EXCEPT ![c] = r]
    /\ capture' = [capture EXCEPT ![c] = cap]
    /\ IF CanAcquire(r)
       THEN /\ \E o \in LaunchOutcomes : Enter(c, r, cap, o)
            /\ waiters' = waiters
       ELSE /\ waiters' = [waiters EXCEPT ![r] = Append(@, c)]
            /\ pc' = [pc EXCEPT ![c] = "waiting"]
            /\ UNCHANGED <<extractVars, reportVars, handleKind, locked, sink, oldStdout, buf, emitted, task,
                           agentLive, cancelReq, timer, elapsed, deadlineHit,
                           caught, last>>

\* The waiter woken by release resumes in Lock.acquire and takes the lock.
CanResume(c) ==
    /\ pc[c] = "waiting"
    /\ ~locked[runnerOf[c]]
    /\ waiters[runnerOf[c]] # <<>>
    /\ waiters[runnerOf[c]][WakeUpFirst(waiters[runnerOf[c]])] = c

Resume(c) ==
    /\ CanResume(c)
    /\ waiters' = [waiters EXCEPT ![runnerOf[c]] = RemoveAt(@, WakeUpFirst(@))]
    /\ \E o \in LaunchOutcomes : Enter(c, runnerOf[c], capture[c], o)
    /\ UNCHANGED callVars

\* The finally block (lines 110-113): sys.stdout after it.
Restore(c) == IF capture[c] THEN oldStdout[c] ELSE sink

\* Leaving the try statement, by "return out, e" (how = "returned") or with an
\* exception no except clause caught (how = "raised"): the buffer is read, the
\* finally block restores sys.stdout, the lock is released.
Exit(c, how, e) ==
    /\ sink' = Restore(c)
    /\ locked' = Release(locked, runnerOf[c])
    /\ pc' = [pc EXCEPT ![c] = IF how = "returned" THEN "done" ELSE "raised"]
    /\ last' = [call |-> c, how |-> how, captured |-> capture[c],
                text |-> IF capture[c] /\ how = "returned" THEN buf[c] ELSE EmptyBuf,
                err |-> e, deadline |-> deadlineHit[c], agent |-> task[c],
                written |-> emitted[c], sinkBefore |-> oldStdout[c],
                sinkAfter |-> sink']
    /\ DropLocals(c)

\* Lines 66-78 and 90-105: print the warning, request cancellation (cancel_run
\* of a WorkflowHandler, cancel of a Task), sleep(0.2).
Handler(c, e, next) ==
    /\ Write(Orig)
    /\ caught' = [caught EXCEPT ![c] = e]
    /\ cancelReq' = [cancelReq EXCEPT ![c] = TRUE]
    /\ pc' = [pc EXCEPT ![c] = next]
    /\ timer' = [timer EXCEPT ![c] = GraceTicks]
    /\ UNCHANGED <<sink, locked, last, oldStdout, elapsed, deadlineHit, task>>

\* The except clause that catches an exception of type e raised by
\* "await asyncio.wait_for(task, timeout=timeout_s)".
Catch(e) ==
    CASE e = "TimeoutError" -> "timeout"
      [] e = "RuntimeError" -> "error"
      [] OTHER -> "none"

Raised(c, e) ==
    CASE Catch(e) = "timeout" -> Handler(c, e, "grace")
      [] Catch(e) = "error" -> Handler(c, e, "errgrace")
      [] OTHER -> Exit(c, "raised", e)

\* wait_for is over with the task done: it returns the task's result, raises
\* the task's exception, or raises TimeoutError for a task it cancelled.
TaskOutcome(c) ==
    CASE task[c] = "result" -> Exit(c, "returned", "none")
      [] task[c] = "cancelled" ->
           Raised(c, IF deadlineHit[c] THEN "TimeoutError" ELSE "CancelledError")
      [] OTHER -> Raised(c, task[c])

\* The task finished before the timeout.
WaitForDone(c) ==
    /\ pc[c] = "waitfor"
    /\ task[c] # "pending"
    /\ TaskOutcome(c)
    /\ UNCHANGED <<extractVars, reportVars, handleKind, callVars, waiters, agentLive, emitted>>

\* The timeout of wait_for expires: wait_for cancels the awaited handle and
\* waits until it is done.  A Future (WorkflowHandler) is cancelled at once; a
\* Task is done only when the coroutine lets the cancellation through.
WaitForTimeout(c) ==
    /\ pc[c] = "waitfor"
    /\ task[c] = "pending"
    /\ timer[c] = 0
    /\ deadlineHit' = [deadlineHit EXCEPT ![c] = TRUE]
    /\ cancelReq' = [cancelReq EXCEPT ![c] = TRUE]
    /\ task' = [task EXCEPT ![c] = IF handleKind = "workflow" THEN "cancelled" ELSE @]
    /\ pc' = [pc EXCEPT ![c] = "cancelwait"]
    /\ UNCHANGED <<extractVars, reportVars, handleKind, callVars, locked, waiters, sink, oldStdout, buf,
                   emitted, agentLive, timer, elapsed, caught, last>>

\* wait_for resumes once the handle it cancelled is done.
CancelWaitDone(c) ==
    /\ pc[c] = "cancelwait"
    /\ task[c] # "pending"
    /\ TaskOutcome(c)
    /\ UNCHANGED <<extractVars, reportVars, handleKind, callVars, waiters, agentLive, emitted>>

\* sleep(0.2) of the timeout path is over: wait_for(shield(task), timeout=1.0).
GraceDone(c) ==
    /\ pc[c] = "grace"
    /\ timer[c] = 0
    /\ pc' = [pc EXCEPT ![c] = "bounded"]
    /\ timer' = [timer EXCEPT ![c] = BoundedTicks]
    /\ UNCHANGED <<extractVars, reportVars, handleKind, callVars, locked, waiters, sink, oldStdout, buf,
                   agentVars, cancelReq, elapsed, deadlineHit, caught, last>>

\* The bounded wait ends, by the task being done or by its timeout; whatever it
\* raises is swallowed (bare except), and run returns (out, e).
BoundedDone(c) ==
    /\ pc[c] = "bounded"
    /\ task[c] # "pending" \/ timer[c] = 0
    /\ Exit(c, "returned", caught[c])
    /\ UNCHANGED <<extractVars, reportVars, handleKind, callVars, waiters, agentLive, emitted>>

\* sleep(0.2) of the error path is over: run returns (out, e).
ErrGraceDone(c) ==
    /\ pc[c] = "errgrace"
    /\ timer[c] = 0
    /\ Exit(c, "returned", caught[c])
    /\ UNCHANGED <<extractVars, reportVars, handleKind, callVars, waiters, agentLive, emitted>>

\* ------------------------------------------------------- the launched agent
\* The agent prints a step of its trace to sys.stdout, whatever that is now.
AgentWrite(c) ==
    /\ agentLive[c]
    /\ emitted[c] < MaxWrites
    /\ emitted' = [emitted EXCEPT ![c] = @ + 1]
    /\ Write(c)
    /\ UNCHANGED <<extractVars, reportVars, handleKind, pc, callVars, locked, waiters, sink, oldStdout, task,
                   agentLive, cancelReq, timer, elapsed, deadlineHit, caught, last>>

\* The agent is over and its pending handle is done: with its result
\* ("result"), with the exception it raised (a member of ExcTypes), or cancelled
\* as requested ("cancelled"; cooperative: it may never happen).  What an agent
\* does after its handle is done shows only in what it writes.
AgentEnds(c, how) ==
    /\ agentLive[c]
    /\ task[c] = "pending"
    /\ how = "cancelled" => cancelReq[c]
    /\ agentLive' = [agentLive EXCEPT ![c] = FALSE]
    /\ task' = [task EXCEPT ![c] = how]
    /\ UNCHANGED <<extractVars, reportVars, handleKind, pc, callVars, locked, waiters, sink, oldStdout, buf,
                   emitted, cancelReq, timer, elapsed, deadlineHit, caught, last>>

\* ------------------------------------------------------------------- clock
\* A call whose next statement can run now: the event loop runs it before any
\* time passes.
Ready(c) ==
    \/ CanResume(c)
    \/ pc[c] = "waitfor" /\ (task[c] # "pending" \/ timer[c] = 0)
    \/ pc[c] = "cancelwait" /\ task[c] # "pending"
    \/ pc[c] = "grace" /\ timer[c] = 0
    \/ pc[c] = "bounded" /\ (task[c] # "pending" \/ timer[c] = 0)
    \/ pc[c] = "errgrace" /\ timer[c] = 0

\* Time passes until the timeout or sleep call c is suspended in expires (the
\* clock itself is not followed: see Tick).
Expire(c) ==
    /\ Running(c)
    /\ timer[c] > 0
    /\ timer' = [timer EXCEPT ![c] = 0]
    /\ UNCHANGED <<extractVars, reportVars, handleKind, pc, callVars, locked, waiters, sink, oldStdout, buf,
                   agentVars, cancelReq, elapsed, deadlineHit, caught, last>>

\* One tick (0.2 s) passes for every call that is suspended holding its lock.
Tick ==
    /\ \A c \in Calls : ~Ready(c)
    /\ \E c \in Calls : Running(c) /\ (timer[c] > 0 \/ elapsed[c] < MaxElapsed)
    /\ timer' = [c \in Calls |->
                    IF Running(c) /\ timer[c] > 0 THEN timer[c] - 1 ELSE timer[c]]
    /\ elapsed' = [c \in Calls |->
                    IF Running(c) /\ elapsed[c] < MaxElapsed
                    THEN elapsed[c] + 1 ELSE elapsed[c]]
    /\ UNCHANGED <<extractVars, reportVars, handleKind, pc, callVars, locked, waiters, sink, oldStdout, buf,
                   agentVars, cancelReq, deadlineHit, caught, last>>

\* ----------------------------------------------------------- specification
\* The statements of run after the lock is taken.
RunStep(c) ==
    \/ WaitForDone(c)
    \/ WaitForTimeout(c)
    \/ CancelWaitDone(c)
    \/ GraceDone(c)
    \/ BoundedDone(c)
    \/ ErrGraceDone(c)

AgentStep(c) ==
    \/ AgentWrite(c)
    \/ \E how \in {"result", "cancelled"} \cup ExcTypes : AgentEnds(c, how)

\* Concurrent calls of run on the two runners of the process; timeouts and
\* sleeps expire at any time.
CrossCalls == 1..MaxCross

Next ==
    \/ \E c \in CrossCalls, r \in Runners, cap \in BOOLEAN : Issue(c, r, cap)
    \/ \E c \in CrossCalls : Resume(c)
    \/ \E c \in CrossCalls : RunStep(c)
    \/ \E c \in CrossCalls : AgentStep(c)
    \/ \E c \in CrossCalls : Expire(c)

Spec == Init /\ [][Next]_vars

\* Concurrent calls of run on one runner (the AppNavigator's), the text the
\* agents write left aside.
LockNext ==
    \/ \E c \in Calls, cap \in BOOLEAN : Issue(c, "navigator", cap)
    \/ \E c \in Calls : Resume(c)
    \/ \E c \in Calls : RunStep(c)
    \/ \E c \in Calls, how \in {"result", "cancelled"} \cup ExcTypes :
          AgentEnds(c, how)
    \/ \E c \in Calls : Expire(c)

LockSpec == Init /\ [][LockNext]_vars

\* The event loop runs every call that can run, and time passes; nothing makes
\* an agent finish or callers issue calls.
LockFairSpec ==
    LockSpec /\ WF_vars(\E c \in Calls : Resume(c) \/ RunStep(c) \/ Expire(c))

\* One call of run, with the clock followed tick by tick.
TimedNext ==
    \/ \E r \in Runners, cap \in BOOLEAN : Issue(1, r, cap)
    \/ RunStep(1)
    \/ AgentStep(1)
    \/ Tick

TimedSpec == Init /\ [][TimedNext]_vars

\* ------------------------------------------------------ the price check
\* _extract_data_from_output on the text of a call of run that returned no
\* error.
Extract ==
    /\ stage = "captured"
    /\ runOutcome = RunReturned("none")
    /\ record' = ExtractDataFromOutput(outputText)
    /\ stage' = "extracted"
    /\ UNCHANGED <<runnerVars, reportVars, outputText, runOutcome>>

\* check_single_platform awaits get_price_via_single_agent, the call of run
\* inside it having ended as runOutcome with outputText.
GetPrice ==
    /\ stage = "captured"
    /\ record' = GetPriceViaSingleAgent(outputText, runOutcome)
    /\ stage' = "priced"
    /\ UNCHANGED <<runnerVars, reportVars, outputText, runOutcome>>

\* check_single_platform goes on with what the navigator returned or raised.
CheckSingle ==
    /\ stage = "priced"
    /\ record' = CheckSinglePlatform(record)
    /\ stage' = "checked"
    /\ UNCHANGED <<runnerVars, reportVars, outputText, runOutcome>>

\* A price check on any captured text.  The text plays no part unless run
\* returned without error, so the other outcomes come with short texts only.
ExtractInit ==
    /\ handleKind = "workflow"
    /\ NoCalls
    /\ runOutcome \in RunOutcomes
    /\ outputText \in TextsUpTo(IF runOutcome = RunReturned("none")
                                THEN MaxSegments ELSE 1)
    /\ stage = "captured"
    /\ record = BlankRecord
    /\ NoReport

ExtractNext == Extract \/ GetPrice \/ CheckSingle

ExtractSpec == ExtractInit /\ [][ExtractNext]_vars

\* ------------------------------------------------------ the per-kg price
\* The prices and weights that check_single_platform hands to
\* _calculate_price_per_kg: a cleaned price, and any weight that is true.
MetricPrices ==
    {Str(<<"4", "9">>),
     Str(<<"9", "8">>),
     Str(<<"1", "4", "4">>),
     Str(<<"2", "8", "8">>),
     Str(<<"3", "1">>),
     Str(<<"6", "2">>),
     Str(<<"1", "2", ".", "5", "0">>),
     Str(<<"2", "5">>),
     Str(<<"0", ".", "1", "5">>),
     Str(<<"0", ".", "3", "0">>),
     Str(<<"2", "9">>),
     Str(<<"0">>)}

MetricWeights ==
    {Str(<<"5", "0", "0", "g">>),
     Str(<<"3", "0", "0", "g">>),
     Str(<<"2", "5", "0", "g", "m">>),
     Str(<<"1", "5", "0", "0", "m", "l">>),
     Str(<<"1", "0", "0", "0", "g">>),
     Str(<<"5", "0", "0", "m", "l">>),
     Str(<<"0", ".", "5", "k", "g">>),
     Str(<<"0", ".", "3", "k", "g">>),
     Str(<<"0", ".", "2", "5", "k", "g">>),
     Str(<<"1", ".", "5", "l">>),
     Str(<<"1", "k", "g">>),
     Str(<<"0", ".", "5", "l">>),
     Str(<<"1", " ", "k", "g">>),
     Str(<<"0", "g">>),
     Str(<<"0", "k", "g">>),
     Str(<<"5", "0", "0">>),
     Str(<<"p", "a", "c", "k">>),
     Str(<<"2", " ", "x", " ", "5", "0", "0", "m", "l">>)}
    \cup {Num(<<"5", "0", "0">>), Num(<<"1">>)}

\* check_single_platform, lines 38-42.
PricePerKg ==
    /\ stage = "weighed"
    /\ record' = [record EXCEPT !.price_per_kg =
                                    CalculatePricePerKg(record.price, record.weight)]
    /\ stage' = "measured"
    /\ UNCHANGED <<runnerVars, reportVars, outputText, runOutcome>>

MetricInit ==
    /\ handleKind = "workflow"
    /\ NoCalls
    /\ runOutcome = RunReturned("none")
    /\ outputText = <<>>
    /\ stage = "weighed"
    /\ \E p \in MetricPrices, w \in MetricWeights :
          record = [BlankRecord EXCEPT !.price = p, !.weight = w]
    /\ NoReport

MetricNext == PricePerKg

MetricSpec == MetricInit /\ [][MetricNext]_vars


\* ---------------------------------------------------- the price fields
\* The currency markers and the numbers a price field is written with.
CurrencyMarkers ==
    {<<>>,
     <<"₹">>,
     <<"₹", " ">>,
     <<"R", "s">>,
     <<"R", "s", " ">>,
     <<"R", "s", ".">>,
     <<"R", "s", ".", " ">>,
     <<"$">>}

PriceNumbers ==
    {<<"2", "9">>,
     <<"1", ",", "2", "9", "9">>,
     <<"4", "5", ".", "5", "0">>,
     <<"1", ",", "2", "9", "9", ".", "0", "0">>,
     <<"0">>,
     <<"1", "0", "0">>}

\* Price fields that are not a marker and a number.
OtherFields ==
    {<<"a", "b", "c">>,
     <<"-", "5">>,
     <<"1", ".", "2", ".", "3">>,
     <<"f", "r", "e", "e">>}

PriceFields == {m \o n : m \in CurrencyMarkers, n \in PriceNumbers} \cup OtherFields

\* A price check whose agent reports a price field in a success="true" marker.
PriceFieldInit ==
    /\ handleKind = "workflow"
    /\ NoCalls
    /\ runOutcome = RunReturned("none")
    /\ \E f \in PriceFields :
          outputText = <<Marker("true", Payload("object",
                                  [EmptyObject EXCEPT !.price = Str(f)], <<>>))>>
    /\ stage = "captured"
    /\ record = BlankRecord
    /\ NoReport

PriceFieldNext == GetPrice \/ CheckSingle

PriceFieldSpec == PriceFieldInit /\ [][PriceFieldNext]_vars

\* ------------------------------------------------ check_multiple_platforms
\* The loop of check_multiple_platforms calls check_single_platform for the
\* next platform, whose navigator gets a text and an outcome from run.
StartCheck ==
    /\ stage = "loop"
    /\ platformNo <= Len(Platforms)
    /\ attempted' = Append(attempted, Platforms[platformNo])
    /\ runOutcome' \in RunOutcomes
    /\ outputText' \in IF runOutcome' = RunReturned("none") THEN PlatformTexts ELSE {<<>>}
    /\ record' = BlankRecord
    /\ lastTask' = "get_price"
    /\ stage' = "captured"
    /\ UNCHANGED <<runnerVars, platformNo, results, allPrices, cooldowns, summaryVars, sent>>

\* Lines 132-133: the record is kept when it has a price.
AppendPrice ==
    /\ stage = "checked"
    /\ results' = Append(results, record)
    /\ allPrices' = IF Truthy(record.price) THEN Append(allPrices, record) ELSE allPrices
    /\ stage' = "closing"
    /\ UNCHANGED <<runnerVars, outputText, runOutcome, record, platformNo, attempted,
                   cooldowns, summaryVars, botVars>>

\* Line 135: close_app awaits run outside any try; when run returns (with or
\* without an error) the loop sleeps or goes on, or check_multiple_platforms
\* returns.
CloseApp ==
    /\ stage = "closing"
    /\ \E outcome \in RunOutcomes : outcome.how = "returned"
    /\ platformNo' = platformNo + 1
    /\ lastTask' = "close_app"
    /\ stage' = IF CooldownDue(platformNo) THEN "cooldown"
                ELSE IF platformNo = Len(Platforms) THEN "returned" ELSE "loop"
    /\ UNCHANGED <<runnerVars, outputText, runOutcome, record, attempted, results,
                   allPrices, cooldowns, summaryVars, sent>>

\* When run raises in close_app, the exception leaves check_multiple_platforms.
CloseAppRaises ==
    /\ stage = "closing"
    /\ \E outcome \in RunOutcomes : outcome.how = "raised"
    /\ lastTask' = "close_app"
    /\ stage' = "aborted"
    /\ UNCHANGED <<runnerVars, outputText, runOutcome, record, loopVars, summaryVars,
                   sent>>

\* Lines 137-139: await asyncio.sleep(delay).
Cooldown ==
    /\ stage = "cooldown"
    /\ cooldowns' = cooldowns + 1
    /\ stage' = IF platformNo > Len(Platforms) THEN "returned" ELSE "loop"
    /\ UNCHANGED <<runnerVars, outputText, runOutcome, record, platformNo, attempted,
                   results, allPrices, summaryVars, botVars>>

\* main.py, line 136.
ValidPrices ==
    SelectSeq(allPrices, LAMBDA p : Truthy(p.price) /\ p.status = "found")

\* A message handed to send_message: what it is, and the notes of per-platform
\* records that its text quotes.
Message(kind, notes) == [kind |-> kind, notes |-> notes]

\* What a step that awaits one agent task leads to: the stage after it when
\* run returns (with or without an error), "aborted" when run raises and
\* nothing catches it.
AfterTask(outcome, next) == IF outcome.how = "raised" THEN "aborted" ELSE next

\* main.py, lines 138-151: no valid price, the message of lines 140-150 (a
\* fixed text with the product name) is sent instead of the summary.
NoPricesFound ==
    /\ stage = "returned"
    /\ ValidPrices = <<>>
    /\ sent' = Append(sent, Message("failure", <<>>))
    /\ lastTask' = "send_message"
    /\ \E outcome \in RunOutcomes : stage' = AfterTask(outcome, "no_prices")
    /\ UNCHANGED <<runnerVars, outputText, runOutcome, record, loopVars, summaryVars>>

\* main.py, line 174, and format_price_summary up to line 245.
SortSummary ==
    /\ stage = "returned"
    /\ ValidPrices # <<>>
    /\ hasPerKg' = HasPerKg(allPrices)
    /\ sortedData' = SortedData(allPrices)
    /\ stage' = "sorted"
    /\ UNCHANGED <<runnerVars, outputText, runOutcome, record, loopVars, savings,
                   bestDeal, botVars>>

\* format_price_summary, line 284.
SummarySavings ==
    /\ stage = "sorted"
    /\ savings' = CalculateSavings(allPrices)
    /\ stage' = "reported"
    /\ UNCHANGED <<runnerVars, outputText, runOutcome, record, loopVars, hasPerKg,
                   sortedData, bestDeal, botVars>>

\* find_best_deal on the list that was summarized.
BestDeal ==
    /\ stage = "reported"
    /\ bestDeal' = FindBestDeal(allPrices)
    /\ stage' = "best"
    /\ UNCHANGED <<runnerVars, outputText, runOutcome, record, loopVars, hasPerKg,
                   sortedData, savings, botVars>>

\* main.py, line 178: the summary is sent.
SendReport ==
    /\ stage = "reported"
    /\ sent' = Append(sent, Message("report", <<>>))
    /\ lastTask' = "send_message"
    /\ \E outcome \in RunOutcomes : stage' = AfterTask(outcome, "report_sent")
    /\ UNCHANGED <<runnerVars, outputText, runOutcome, record, loopVars, summaryVars>>

\* main.py, lines 99, 152 and 186: await self.whatsapp.go_home(), return.
GoHome ==
    /\ stage \in {"help_sent", "no_prices", "report_sent"}
    /\ lastTask' = "go_home"
    /\ \E outcome \in RunOutcomes : stage' = AfterTask(outcome, "done")
    /\ UNCHANGED <<runnerVars, outputText, runOutcome, record, loopVars, summaryVars,
                   sent>>

PlatformsInit ==
    /\ handleKind = "workflow"
    /\ NoCalls
    /\ runOutcome = RunReturned("none")
    /\ outputText = <<>>
    /\ stage = "loop"
    /\ record = BlankRecord
    /\ NoReport

PlatformsNext ==
    \/ StartCheck
    \/ GetPrice
    \/ CheckSingle
    \/ AppendPrice
    \/ CloseApp
    \/ CloseAppRaises
    \/ Cooldown
    \/ NoPricesFound
    \/ SortSummary
    \/ SummarySavings
    \/ BestDeal
    \/ SendReport
    \/ GoHome

PlatformsSpec == PlatformsInit /\ [][PlatformsNext]_vars

\* ------------------------------------------------------ SmartGroceryBot.run
\* read_last_message, lines 70-72: open_chat runs its task; an error makes
\* read_last_message return None.
OpenChat ==
    /\ stage = "start"
    /\ lastTask' = "open_chat"
    /\ \E outcome \in RunOutcomes :
          stage' = AfterTask(outcome, IF outcome.err = "none" THEN "chat_open"
                                      ELSE "unreadable")
    /\ UNCHANGED <<runnerVars, outputText, runOutcome, record, loopVars, summaryVars,
                   sent>>

\* read_last_message, lines 84-107, and main.py, lines 67-87: the task that
\* reads the message gives no message, a message that is no product query, or
\* a product query.
ReadMessage ==
    /\ stage = "chat_open"
    /\ lastTask' = "read_message"
    /\ \E outcome \in RunOutcomes :
          stage' \in IF outcome.how = "raised" THEN {"aborted"}
                     ELSE IF outcome.err # "none" THEN {"unreadable"}
                     ELSE {"unreadable", "not_product", "product"}
    /\ UNCHANGED <<runnerVars, outputText, runOutcome, record, loopVars, summaryVars,
                   sent>>

\* send_error_message, line 199; "except Exception" (line 201) ends it when
\* the task raises, and run returns.
SendError ==
    /\ stage = "unreadable"
    /\ sent' = Append(sent, Message("error", <<>>))
    /\ lastTask' = "send_message"
    /\ \E outcome \in RunOutcomes :
          stage' = IF outcome.how = "raised" THEN "done" ELSE "error_sent"
    /\ UNCHANGED <<runnerVars, outputText, runOutcome, record, loopVars, summaryVars>>

\* send_error_message, line 200, inside the same try.
GoHomeAfterError ==
    /\ stage = "error_sent"
    /\ lastTask' = "go_home"
    /\ stage' = "done"
    /\ UNCHANGED <<runnerVars, outputText, runOutcome, record, loopVars, summaryVars,
                   sent>>

\* main.py, lines 88-98: the help text.
SendHelp ==
    /\ stage = "not_product"
    /\ sent' = Append(sent, Message("help", <<>>))
    /\ lastTask' = "send_message"
    /\ \E outcome \in RunOutcomes : stage' = AfterTask(outcome, "help_sent")
    /\ UNCHANGED <<runnerVars, outputText, runOutcome, record, loopVars, summaryVars>>

\* main.py, lines 115-133: the acknowledgment, then check_multiple_platforms.
SendAck ==
    /\ stage = "product"
    /\ sent' = Append(sent, Message("ack", <<>>))
    /\ lastTask' = "send_message"
    /\ \E outcome \in RunOutcomes : stage' = AfterTask(outcome, "loop")
    /\ UNCHANGED <<runnerVars, outputText, runOutcome, record, loopVars, summaryVars>>

BotInit ==
    /\ handleKind = "workflow"
    /\ NoCalls
    /\ runOutcome = RunReturned("none")
    /\ outputText = <<>>
    /\ stage = "start"
    /\ record = BlankRecord
    /\ NoReport

BotNext ==
    \/ OpenChat
    \/ ReadMessage
    \/ SendError
    \/ GoHomeAfterError
    \/ SendHelp
    \/ SendAck
    \/ PlatformsNext

BotSpec == BotInit /\ [][BotNext]_vars

\* ------------------------------------------------------------------ claims
\* C1: at every instant at most one agent invocation is running process-wide,
\* through whichever runner instance the calls were issued.
C1_AtMostOneRunning ==
    \A c, d \in Calls : Running(c) /\ Running(d) => c = d

\* C2: a capturing call never leaves run with sys.stdout swapped: on every exit
\* path the sink installed when it began is installed again.
C2_SinkRestoredOnExit ==
    last.call # Orig /\ last.captured => last.sinkAfter = last.sinkBefore

\* C3: once it holds the slot, run returns within timeout + grace + bounded
\* wait, whether or not the agent reacts to cancellation.
C3_ReturnsWithinBound ==
    \A c \in Calls : Running(c) => elapsed[c] <= TimeoutBound

\* C4: the returned error is of the Timeout kind iff the deadline was exceeded,
\* the agent's own failure iff the agent raised before the deadline, and absent
\* iff the agent completed normally.
C4_OutcomeClassified ==
    last.call # Orig /\ last.how = "returned" =>
        /\ last.err = "TimeoutError" <=> last.deadline
        /\ last.err \notin {"none", "TimeoutError"}
              <=> (last.agent \in ExcTypes /\ ~last.deadline)
        /\ last.err = "none" <=> (last.agent = "result" /\ ~last.deadline)

\* C5: the lock is released on every exit path: it is never held with no call
\* of its runner inside run, and under fair scheduling a waiting caller gets the
\* lock unless the holder is suspended on an agent that ignores cancellation.
LockHeldByRunningCall ==
    \A r \in Runners :
        locked[r] => \E c \in Calls : runnerOf[c] = r /\ Running(c)

HolderAwaitsAgent(r) ==
    \E d \in Calls : runnerOf[d] = r /\ pc[d] = "cancelwait" /\ task[d] = "pending"

C5_SlotReleased ==
    /\ []LockHeldByRunningCall
    /\ \A c \in Calls :
          (pc[c] = "waiting") ~> (pc[c] # "waiting" \/ HolderAwaitsAgent(runnerOf[c]))

\* A waiter while the lock is free, just after the holder left by the timeout path.
C5_Witness ==
    /\ pc[2] = "waiting"
    /\ ~locked[runnerOf[2]]
    /\ last.call = 1
    /\ last.err = "TimeoutError"

\* C6: when a capturing call ends by timeout or agent failure, the returned
\* text holds everything its agent wrote before run returned.
C6_CapturedEverything ==
    last.call # Orig /\ last.how = "returned" /\ last.captured /\ last.err # "none"
        => last.text[last.call] = last.written

\* C7: on one runner, a call leaves run only after every call issued earlier
\* on that runner has left.
C7_ReturnInIssueOrder ==
    last.call # Orig =>
        \A d \in Calls :
            d < last.call /\ runnerOf[d] = runnerOf[last.call] => Exited(d)

\* The second call has left run while the third, issued meanwhile, waits.
C7_Witness ==
    /\ last.call = 2
    /\ Exited(1)
    /\ pc[3] = "waiting"

\* C8: the text captured for one invocation never holds output of another
\* invocation's agent.
C8_NoForeignOutput ==
    /\ \A c, d \in Calls : c # d => buf[c][d] = 0
    /\ last.call # Orig => \A d \in Calls : d # last.call => last.text[d] = 0

\* C9: the record _extract_data_from_output returns has status found only
\* when it is built from a marker with success="true" and carries a usable
\* price, status not_found when the marker it is built from has
\* success="false", and status error in every other case.
C9_StatusFollowsMarker ==
    stage = "extracted" /\ record.status # "raised" =>
        LET fromTrue == Lower(record.marker) = "true" /\ Truthy(record.price)
            fromFalse == Lower(record.marker) = "false"
        IN  /\ record.status = "found" => fromTrue
            /\ fromFalse => record.status = "not_found"
            /\ ~fromTrue /\ ~fromFalse => record.status = "error"

\* C10: a record of the extractor or of check_single_platform with status
\* found has a price that is present and not null, and every price that is
\* present and not null is a string of digits with at most one decimal point.
C10_SourceRecordInvariant ==
    stage \in {"extracted", "priced", "checked"} /\ record.status # "raised" =>
        /\ record.status = "found" => ~IsNone(record.price)
        /\ ~IsNone(record.price) =>
              /\ record.price.t = "str"
              /\ record.price.v # <<>>
              /\ \A i \in 1..Len(record.price.v) :
                    IsDigit(record.price.v[i]) \/ record.price.v[i] = "."
              /\ Count(record.price.v, ".") <= 1

\* Nothing can be recovered from a text that is empty, or that has no
\* completion marker and lacks the word "price" or a digit.
Unrecoverable(text) ==
    \/ Render(text) = <<>>
    \/ /\ Matches(text) = <<>>
       /\ \/ \A k \in 1..Len(Render(text)) : Lower(Render(text)[k]) # "price"
          \/ \A k \in 1..Len(Render(text)) : ~IsDigit(Render(text)[k])

C12_ExtractIsTotal ==
    stage = "extracted" =>
        /\ record.status \in {"found", "not_found", "error"}
        /\ record.status = "error" => ~IsNone(record.note)

\* The text is one success="true" marker whose payload is a JSON object with a
\* valid price and a valid quantity (a number and a unit).
RendersValidRecord(text) ==
    /\ Len(text) = 1
    /\ text[1].tag = "marker"
    /\ text[1].success = "true"
    /\ text[1].payload.k = "object"
    /\ Truthy(CleanPriceValue(text[1].payload.obj.price))
    /\ text[1].payload.obj.weight.t = "str"
    /\ CalculatePricePerKg(Str(<<"1">>), text[1].payload.obj.weight).t = "float"

\* C13: extracting a success="true" marker that holds a record with a valid
\* price and quantity as a JSON object gives a record with the same price
\* (normalized) and the same quantity, whatever its other fields.
C13_RoundTrip ==
    stage = "extracted" /\ RendersValidRecord(outputText) =>
        /\ record.price = CleanPriceValue(outputText[1].payload.obj.price)
        /\ record.weight = outputText[1].payload.obj.weight

\* The same quantity written in the small unit and in the large one.
SameQuantity ==
    {<<<<"5", "0", "0", "g">>, <<"0", ".", "5", "k", "g">>>>,
     <<<<"3", "0", "0", "g">>, <<"0", ".", "3", "k", "g">>>>,
     <<<<"2", "5", "0", "g", "m">>, <<"0", ".", "2", "5", "k", "g">>>>,
     <<<<"1", "5", "0", "0", "m", "l">>, <<"1", ".", "5", "l">>>>,
     <<<<"1", "0", "0", "0", "g">>, <<"1", "k", "g">>>>,
     <<<<"5", "0", "0", "m", "l">>, <<"0", ".", "5", "l">>>>}

\* A price and its double.
Doubled ==
    {<<<<"4", "9">>, <<"9", "8">>>>,
     <<<<"1", "4", "4">>, <<"2", "8", "8">>>>,
     <<<<"3", "1">>, <<"6", "2">>>>,
     <<<<"1", "2", ".", "5", "0">>, <<"2", "5">>>>,
     <<<<"0", ".", "1", "5">>, <<"0", ".", "3", "0">>>>}

\* C14: the per-kg price of a quantity written in g, gm or ml is that of the
\* equal quantity written in kg or l, and the per-kg price of p for 500g is
\* that of 2p for 1kg.
C14_ScaleConsistent ==
    stage = "measured" =>
        /\ \A q \in SameQuantity :
              record.weight = Str(q[1]) =>
                  record.price_per_kg = CalculatePricePerKg(record.price, Str(q[2]))
        /\ \A d \in Doubled :
              record.price = Str(d[1]) /\ record.weight = Str(<<"5", "0", "0", "g">>) =>
                  record.price_per_kg =
                      CalculatePricePerKg(Str(d[2]), Str(<<"1", "k", "g">>))

C14_Witness ==
    /\ stage = "measured"
    /\ record.price = Str(<<"4", "9">>)
    /\ record.weight = Str(<<"5", "0", "0", "g">>)
    /\ record.price_per_kg = PerKg(9800)

\* A number followed by a unit occurs in the weight.
HasQuantity(weight) ==
    /\ weight.t = "str"
    /\ \E k \in 1..Len(weight.v) :
          /\ IsDigit(weight.v[k])
          /\ LET j == RunEnd(weight.v, k, "digit")
                 e == IF At(weight.v, j + 1) = "." /\ IsDigit(At(weight.v, j + 2))
                      THEN RunEnd(weight.v, j + 2, "digit") ELSE j
             IN  UnitLen(weight.v, RunEnd(weight.v, e + 1, "space") + 1) > 0

\* C15: the per-kg computation never raises: it returns a number or nothing,
\* and nothing when the weight holds no number followed by a unit.
C15_MetricNeverRaises ==
    stage = "measured" =>
        /\ record.price_per_kg.t \in {"float", "none"}
        /\ ~HasQuantity(record.weight) => record.price_per_kg = NonePerKg

\* The records of a list that carry a per-kg price.
WithPerKg(price_data) == SelectSeq(price_data, LAMBDA p : TruthyPerKg(p.price_per_kg))

\* C16: the order of the summary and the savings use the same basis: the
\* per-kg price exactly when at least two records carry one, the absolute
\* price otherwise.
C16_SameBasis ==
    stage = "reported" /\ Len(allPrices) >= 2 =>
        /\ hasPerKg <=> Len(WithPerKg(allPrices)) >= 2
        /\ savings.basis = "per_kg" <=> Len(WithPerKg(allPrices)) >= 2

\* C17: with at least one found entry, the first entry of the summary is not
\* dearer, on the basis chosen (per-kg when at least two found records carry a
\* per-kg price, absolute otherwise), than any other found entry, and entries
\* with equal keys keep the order they had.
C17_RankTotalStable ==
    stage = "reported" =>
        LET found == SelectSeq(allPrices, LAMBDA p : p.status = "found")
            per_kg == Len(WithPerKg(found)) >= 2
            Position(x) == FirstOf({k \in 1..Len(allPrices) : allPrices[k] = x})
        IN  /\ \A k \in 2..Len(sortedData) :
                  sortedData[k].status = "found" =>
                      SortKey(sortedData[1], per_kg) <= SortKey(sortedData[k], per_kg)
            /\ \A j, k \in 1..Len(sortedData) :
                  /\ j < k
                  /\ SortKey(sortedData[j], hasPerKg) = SortKey(sortedData[k], hasPerKg)
                  /\ sortedData[j] # sortedData[k]
                  => Position(sortedData[j]) < Position(sortedData[k])

\* C18: the savings are the largest minus the smallest metric of the found
\* records on the basis chosen, and that amount as a percentage of the largest
\* (0 when it is 0); they are zero with fewer than two found records; for
\* (49, 300g) and (144, 500g) they are 124.67 per kg and 43.3 %.
C18_Savings ==
    stage = "reported" =>
        LET found == SelectSeq(allPrices, LAMBDA p : p.status = "found")
            per_kg == Len(WithPerKg(found)) >= 2
            carrying == IF per_kg THEN WithPerKg(found) ELSE found
            metrics == [k \in 1..Len(carrying) |-> SortKey(carrying[k], per_kg)]
            amount == SeqMax(metrics) - SeqMin(metrics)
        IN  /\ Len(found) < 2 => savings.amount = 0 /\ savings.percentage = 0
            /\ Len(found) >= 2 =>
                  /\ savings.basis = IF per_kg THEN "per_kg" ELSE "absolute"
                  /\ savings.amount = amount
                  /\ savings.percentage = IF SeqMax(metrics) = 0 THEN 0
                                          ELSE RoundDiv(amount * 1000, SeqMax(metrics))
            /\ /\ Len(allPrices) = 2
               /\ allPrices[1].price = Str(<<"4", "9">>)
               /\ allPrices[1].weight = Str(<<"3", "0", "0", "g">>)
               /\ allPrices[2].price = Str(<<"1", "4", "4">>)
               /\ allPrices[2].weight = Str(<<"5", "0", "0", "g">>)
               => savings.basis = "per_kg" /\ savings.amount = 12467
                                          /\ savings.percentage = 433

\* C19: in the summary only found records are ranked, and every platform
\* whose record is not found is listed apart from them, never left out.
C19_FailedListedApart ==
    stage = "reported" =>
        /\ \A k \in 1..Len(sortedData) : sortedData[k].status = "found"
        /\ \A k \in 1..Len(results) :
              results[k].status # "found" =>
                  \E j \in 1..Len(ListedSeparately(allPrices)) :
                      ListedSeparately(allPrices)[j] = results[k]

\* C20: check_multiple_platforms hands every platform once, in list order, to
\* check_single_platform and returns, whatever the agent does.
C20_EveryPlatformChecked ==
    /\ stage # "aborted"
    /\ attempted = SubSeq(Platforms, 1, Len(attempted))
    /\ stage \in {"returned", "no_prices", "sorted", "reported"} => attempted = Platforms

\* The text is one success="true" marker whose payload is a JSON object with a
\* valid price.
EmittedValidMarker(text) ==
    /\ Len(text) = 1
    /\ text[1].tag = "marker"
    /\ text[1].success = "true"
    /\ text[1].payload.k = "object"
    /\ ~JsonDecodeError(text[1].payload)
    /\ Truthy(CleanPriceValue(text[1].payload.obj.price))

\* C22: when run returns a timeout or a failure together with a captured text
\* that holds a valid success="true" marker, the record of the price check is
\* the found record of that marker.
C22_PartialOutputKept ==
    /\ stage = "priced"
    /\ runOutcome \in {RunReturned("TimeoutError"), RunReturned("RuntimeError")}
    /\ EmittedValidMarker(outputText)
    => /\ record.status = "found"
       /\ record.price = CleanPriceValue(outputText[1].payload.obj.price)

\* C23: a call of run that returns an error, the agent's own failure as well
\* as a timeout, has requested cancellation, waited the grace window and then
\* waited in the bounded wait: it returns from the bounded wait.
C23_SameSequenceOnError ==
    [][\A c \in Calls :
          pc[c] # "done" /\ pc'[c] = "done" /\ last'.err # "none" =>
              cancelReq[c] /\ pc[c] = "bounded"]_vars

\* The record r is the one the loop over the matches builds from marker m.
BuiltFrom(r, m) ==
    LET one == TryMarker(m)
    IN  /\ one.status = r.status
        /\ one.price = r.price
        /\ one.original_price = r.original_price
        /\ one.weight = r.weight
        /\ one.name = r.name
        /\ one.note = r.note

\* C24: from a text with several completion markers the record returned is
\* built from one marker only, the last that yields a record, and when the last
\* marker is success="true" with a valid payload it is that marker's record.
C24_LastWins ==
    /\ stage = "extracted"
    /\ Len(Matches(outputText)) >= 2
    /\ record.status \in {"found", "not_found"}
    => LET matches == Matches(outputText)
       IN  \E i \in 1..Len(matches) :
              /\ BuiltFrom(record, matches[i])
              /\ \A j \in (i + 1)..Len(matches) : TryMarker(matches[j]) = Continue

\* C26: the price the raw-text fallback returns is a number that follows the
\* word "price" in the text.
C26_PriceFollowsWord ==
    stage = "extracted" /\ record.via = "raw_text" /\ record.status = "found" =>
        LET toks == Render(outputText)
        IN  \E k \in 1..Len(toks) :
               /\ Lower(toks[k]) = "price"
               /\ record.price =
                      CleanPriceValue(Str(FallbackPrice(SubSeq(toks, k + 1, Len(toks)))))

\* The number a price written with thousands separators denotes, in hundredths.
Denoted(n) == Scaled(SelectSeq(n, LAMBDA c : c # ","), 2)

\* C25: the normalized price of a field made of a currency marker and a number
\* denotes that number, and a field whose remainder is not a non-negative
\* number has no price.
C25_NormalizationKeepsValue ==
    stage \in {"priced", "checked"} =>
        LET field == outputText[1].payload.obj.price.v
        IN  /\ \A m \in CurrencyMarkers, n \in PriceNumbers :
                  field = m \o n =>
                      /\ record.price.t = "str"
                      /\ FloatParses(record.price.v)
                      /\ Scaled(record.price.v, 2) = Denoted(n)
            /\ field \in OtherFields => IsNone(record.price)

\* C27: with a positive delay a cooldown takes place between every two
\* consecutive platforms and none after the last: each check after the first
\* starts after one more cooldown, a cooldown follows the closing of an app
\* that is not the last, and n platforms are checked with n - 1 cooldowns.
C27_CooldownBetweenTargets ==
    /\ stage = "captured" => cooldowns = Len(attempted) - 1
    /\ stage = "cooldown" => lastTask = "close_app" /\ platformNo <= Len(Platforms)
    /\ stage = "returned" => cooldowns = Len(Platforms) - 1

C27_Witness ==
    /\ stage = "returned"
    /\ attempted = Platforms
    /\ cooldowns = 1

\* C29: the record find_best_deal returns for a list of priced records is the
\* first entry of the summary of that list.
C29_BestDealIsRankedFirst ==
    stage = "best" => bestDeal = sortedData[1]

\* The messages of a kind among those handed to send_message.
Sent(kind) == SelectSeq(sent, LAMBDA m : m.kind = kind)

\* C21: when no platform gives a found record, one failure message is sent for
\* the request and no summary, and the failure message quotes the note of a
\* per-platform record that was not found.
C21_OneFailureFromErrors ==
    stage = "no_prices" =>
        /\ Len(Sent("failure")) = 1
        /\ Sent("report") = <<>>
        /\ \E k \in 1..Len(results) :
              /\ results[k].status # "found"
              /\ \E j \in 1..Len(Sent("failure")[1].notes) :
                    Sent("failure")[1].notes[j] = results[k].note

\* C30: when run returns, one terminal message (error, help text, failure or
\* summary) was handed to send_message and the last task issued is go_home.
C30_OneMessageThenHome ==
    stage = "done" =>
        /\ Len(SelectSeq(sent, LAMBDA m : m.kind # "ack")) = 1
        /\ lastTask = "go_home"

\* C28: when every call of run that was issued has returned, and two of them
\* captured their output through different runners, sys.stdout is the sink
\* that was installed before the first call began.
C28_OriginalSinkAfterAll ==
    /\ \A c \in 1..nIssued : pc[c] = "done"
    /\ \E c, d \in 1..nIssued :
          capture[c] /\ capture[d] /\ runnerOf[c] # runnerOf[d]
    => sink = Orig
====
